---- MODULE Spec2Model ----
(***************************************************************************)
(* Model of tap_ms_teams/client.py: MicrosoftGraphClient.                  *)
(*                                                                         *)
(* One client object is shared by the caller's thread (thread 0) and by    *)
(* the threads of the threading.Timer objects that login() starts          *)
(* (threads 1..MaxBg).  Every thread has a call stack of frames (top of    *)
(* the stack first) for get_all_resources, make_request (together with     *)
(* its backoff.on_exception wrapper) and login.  A thread takes a step     *)
(* where it touches the shared client or the network:                      *)
(*   Send       an attempt of make_request begins: it reads access_token   *)
(*              into the headers and issues the HTTP call (or raises for   *)
(*              an unsupported method);                                    *)
(*   Respond    the HTTP response arrives and is classified; everything    *)
(*              the thread then does without touching the network or the   *)
(*              token (raising through the retry wrapper, the finally      *)
(*              block of login, the pagination loop body) is part of the   *)
(*              same step;                                                 *)
(*   ConnectionFails  the HTTP call raises instead of returning a         *)
(*              response;                                                  *)
(*   LoginStore login() stores the token it received (line 72);            *)
(*   LoginFinally  login() creates the Timer (lines 75-76);                *)
(*   TimerStart, TimerSpawn  login() starts the Timer that login_timer     *)
(*              holds (line 77): the test of Thread.start(), then the      *)
(*              spawn.                                                     *)
(* The server is the environment: it picks every status and payload.       *)
(***************************************************************************)
EXTENDS Integers, Sequences, FiniteSets, TLC

\* ---------------------------------------------------------------- bounds
MaxBg == 1          \* timer threads that can run login() at the same time
MaxTimers == 2      \* armed timers plus login() calls in progress
MaxTokens == 2      \* tokens the token endpoint issues
MaxPages == 2       \* pages one get_all_resources call follows
MaxRecs == 2        \* records in one page

\* ------------------------------------------------------ program constants
max_tries == 5      \* backoff.on_exception(..., max_tries=5)

TOKEN_URL == "TOKEN_URL"
BASE_GRAPH_URL == "https://graph.microsoft.com"
Cursors == {"U1", "U2"}

None == "None"

Threads == 0..MaxBg
Caller == 0

\* login_timer: the Timer object self.login_timer refers to (0: None);
\* started: the Timer objects a start() has spawned the thread of.
VARIABLES access_token, login_timer, started, armed, issued, stack, out

vars == <<access_token, login_timer, started, armed, issued, stack, out>>

\* The Timer objects: the one login_timer refers to and one for every thread
\* (a thread inside start() holds the object it is starting).
Timers == 1..(MaxBg + 2)


\* ------------------------------------------------------------ environment
\* The statuses the resource endpoint and the token endpoint answer with.
Statuses == {200, 202, 401, 418, 429, 500}
TokenStatuses == {200, 400, 401, 500}
Methods == {"GET", "POST", "DELETE"}

\* The values of a page's 'value' field: the records 1..n in server order.
Values == { [i \in 1..n |-> i] : n \in 0..MaxRecs }

\* A JSON payload of the resource endpoint.  empty: the payload is falsy ({}).
\* hasValue: the payload has the key 'value'.  next: '@odata.nextLink' or None.
EmptyBody == [empty |-> TRUE, hasValue |-> FALSE, value |-> <<>>, next |-> None]

PageBodies ==
    {EmptyBody} \cup
    [empty : {FALSE}, hasValue : {TRUE}, value : Values, next : Cursors \cup {None}] \cup
    [empty : {FALSE}, hasValue : {FALSE}, value : {<<>>}, next : Cursors \cup {None}]

\* The payloads a request of the caller's own gets: they are not looked into.
DirectBodies == {EmptyBody, [empty |-> FALSE, hasValue |-> TRUE, value |-> <<1>>, next |-> None]}

\* A JSON payload of the token endpoint; access_token 0 is a payload without
\* the field (dict.get returns None).
TokenBody(k) == [access_token |-> k]

\* ---------------------------------------------------------------- build_url
\* urllib.parse.urlparse of a base url: scheme://netloc, nothing else.
Urlparse(baseurl) ==
    CASE baseurl = BASE_GRAPH_URL ->
           [scheme |-> "https", netloc |-> "graph.microsoft.com", path |-> "", query |-> ""]

\* urllib.parse.quote_plus of str(x), for the keys and values of the model:
\* '$' becomes %24 and a blank becomes '+'; letters and digits stay.
QuotePlus(x) ==
    CASE x = "$top" -> "%24top"
      [] x = "$orderby" -> "%24orderby"
      [] x = "$filter" -> "%24filter"
      [] x = "id eq 1" -> "id+eq+1"
      [] OTHER -> x

\* urllib.parse.urlencode of a dict, given as its items in insertion order.
RECURSIVE Urlencode(_)
Urlencode(items) ==
    IF items = <<>> THEN ""
    ELSE QuotePlus(Head(items)[1]) \o "=" \o QuotePlus(Head(items)[2])
         \o (IF Tail(items) = <<>> THEN "" ELSE "&" \o Urlencode(Tail(items)))

\* urllib.parse.urlunparse of parts with a netloc: the path (none begins with
\* '/' here) gets a leading '/', and a query that is not empty follows '?'.
Urlunparse(parts) ==
    parts.scheme \o ":" \o "//" \o parts.netloc
        \o (IF parts.path = "" THEN "" ELSE "/" \o parts.path)
        \o (IF parts.query = "" THEN "" ELSE "?" \o parts.query)

\* lines 44-50
build_url(baseurl, version, path, args_dict) ==
    Urlunparse([Urlparse(baseurl) EXCEPT !.path = version \o "/" \o path,
                                          !.query = Urlencode(args_dict)])

\* The arguments of a get_all_resources call.  A hint that is not given is
\* None; "" is a hint that is given and empty.
Call(top, orderby, filter_param) ==
    [version |-> "v1.0", endpoint |-> "users",
     top |-> top, orderby |-> orderby, filter_param |-> filter_param]

PlainCall == Call(None, None, None)

Calls ==
    {PlainCall, Call("500", None, ""), Call(None, "displayName", "id eq 1"),
     Call("500", "displayName", "id eq 1")}

\* Variant: a hint is put into args whether it is empty or not.
HintGivenAlways(hint) == TRUE

\* lines 88, 90, 92: the truth value of a hint.
HintGiven(hint) == hint # None /\ hint # ""

\* lines 86-93: args, as the items of the dict in insertion order.
Args(c) ==
    (IF HintGiven(c.top) THEN <<<<"$top", c.top>>>> ELSE <<>>)
    \o (IF HintGiven(c.orderby) THEN <<<<"$orderby", c.orderby>>>> ELSE <<>>)
    \o (IF HintGiven(c.filter_param) THEN <<<<"$filter", c.filter_param>>>> ELSE <<>>)

\* The url of a request of the caller's own.
FirstUrl == build_url(BASE_GRAPH_URL, PlainCall.version, PlainCall.endpoint, Args(PlainCall))

\* ------------------------------------------------------------------ frames
NoHeader == 0 - 1

\* A call of make_request with its retry wrapper.  tries: the attempts begun;
\* auth: the Authorization header of the current attempt; status, json: the
\* latest response the call has got.
MrFrame(method, url) ==
    [op |-> "mr", method |-> method, url |-> url, tries |-> 1, pc |-> "start",
     auth |-> NoHeader, status |-> 0, json |-> EmptyBody]

\* lines 86-96: get_all_resources called with the arguments c, before its loop.
\* fetched: the payloads the call has received; bad: the statuses other than
\* 200, 201 and 202 of the responses those payloads came with.
GarFrame(c) ==
    [op |-> "gar", call |-> c,
     next_url |-> build_url(BASE_GRAPH_URL, c.version, c.endpoint, Args(c)),
     response |-> <<>>, fetched |-> <<>>, bad |-> {}]

NoOut == [op |-> "none"]

Ret(v) == [k |-> "ret", v |-> v]
Exc(type, status, url) == [k |-> "exc", type |-> type, status |-> status, url |-> url]

\* A call of login().  pc: "call" (in make_request), "store" (line 72 is
\* next), "finally" (line 75 is next), "start" (line 77 is next); result: the
\* payload of the token endpoint; pending: what the call ends with once the
\* finally block is through; entry: access_token when the call began; at pc
\* "spawn" the call is inside Thread.start(), past its test, and timer is the
\* Timer object it is starting.
LoginFrame(entry) ==
    [op |-> "login", pc |-> "call", result |-> TokenBody(0), pending |-> Ret(None),
     entry |-> entry, timer |-> 0]

\* -------------------------------------------------------------- make_request
\* Variant: every exception the body raises is retried.
RetryableAll(type) == TRUE

\* line 112: the exception classes backoff.on_exception retries.
Retryable(type) == type \in {"Server5xxError", "ConnectionError", "Server42xRateLimitError"}

\* Variant: one attempt more before giving up.
GiveUpLate(tries) == tries > max_tries

\* backoff gives up when the number of tries has reached max_tries.
GiveUp(tries) == tries >= max_tries

\* Variant: the status is not tested before the payload is returned.
StatusOkAlways(status) == TRUE

\* line 146
StatusOk(status) == status \in {200, 201, 202}

\* lines 117 and 122-128: the headers are built from access_token for every
\* method, and handed to session.get only; session.post gets none.
SentAuth(method, token) == IF method = "GET" THEN token ELSE NoHeader

\* Variant: the page's records are put in front of the accumulated ones.
ExtendFront(response, data) == data \o response

\* line 104: response.extend(data)
Extend(response, data) == response \o data

\* Variant: an empty payload is handled like a page.
TruthyAlways(body) == TRUE

\* line 101: the truth value of the decoded payload.
Truthy(body) == ~body.empty

\* Variant: a method without a branch of its own is sent like a POST.
SupportedAll(method) == TRUE

\* lines 122-130: the methods make_request has a branch for.
Supported(method) == method \in {"GET", "POST"}

RECURSIVE Resume(_, _, _, _)
RECURSIVE Raise(_, _, _)

\* Variant: get_all_resources returns what it has when a request fails.
AbortPartial(g, rest, sig, tm) == Resume(rest, Ret(g.response), tm, g)

\* lines 97-107: make_request raised in get_all_resources, frame g, which
\* handles no exception: the caller of g gets it, and g's response is gone.
Abort(g, rest, sig, tm) == Resume(rest, sig, tm, g)

\* An exception is raised in the body of the make_request frame on top of s:
\* the backoff wrapper calls the body again (a new attempt), or lets the
\* exception go to the caller of make_request.
Raise(s, e, tm) ==
    LET f == Head(s) IN
    IF Retryable(e.type) /\ ~GiveUp(f.tries)
    THEN [stack |-> <<[f EXCEPT !.tries = @ + 1, !.pc = "start", !.auth = NoHeader]>>
                    \o Tail(s),
          out |-> NoOut, tm |-> tm]
    ELSE Resume(Tail(s), e, tm, f)

\* Variant: the loop makes one request and returns after its page.
LoopOnce(g, rest, tm) ==
    IF g.next_url # None /\ g.fetched = <<>>
    THEN [stack |-> <<MrFrame("GET", g.next_url), g>> \o rest, out |-> NoOut, tm |-> tm]
    ELSE Resume(rest, Ret(g.response), tm, g)

\* lines 98-107: the loop of get_all_resources, from its test.
Loop(g, rest, tm) ==
    IF g.next_url # None
    THEN [stack |-> <<MrFrame("GET", g.next_url), g>> \o rest, out |-> NoOut, tm |-> tm]
    ELSE Resume(rest, Ret(g.response), tm, g)

\* lines 100-106: get_all_resources, frame g, receives the payload body.
Page(g, body, rest, tm) ==
    LET h == [g EXCEPT !.fetched = Append(@, body)] IN
    IF Truthy(body)
    THEN IF body.hasValue
         THEN Loop([h EXCEPT !.next_url = body.next,
                             !.response = Extend(@, body.value)], rest, tm)
         \* data is None and list.extend(None) raises TypeError
         ELSE Resume(rest, Exc("TypeError", 0, g.next_url), tm,
                     [h EXCEPT !.next_url = body.next])
    ELSE Loop([h EXCEPT !.next_url = None], rest, tm)

\* lines 146-147 after self.login() returned at line 138: the status is 401.
AfterLogin(s, tm) ==
    Raise(s, Exc("RuntimeError", 401, Head(s).url), tm)

\* The call made by the frame on top of s has ended with sig (a return value
\* or an exception); fr is the frame that ended.  The thread runs on until
\* it next calls make_request, has a token to store, or has nothing left to
\* run, or comes to a statement of a finally block of login() that it may
\* not take in this step.  tm is what the step has done to login_timer:
\* 0 nothing, 1 a Timer was created (lines 75-76), 2 line 77 was run.
Resume(s, sig, tm, fr) ==
    IF s = <<>>
    THEN [stack |-> <<>>, out |-> [op |-> fr.op, sig |-> sig, fr |-> fr], tm |-> tm]
    ELSE LET f == Head(s) IN
         CASE f.op = "mr" ->
                IF sig.k = "exc" THEN Raise(s, sig, tm) ELSE AfterLogin(s, tm)
           [] f.op = "login" ->
                IF sig.k = "exc"
                \* the finally block: lines 75-76 in this step when the
                \* step has not touched login_timer, in a step of their
                \* own otherwise
                THEN [stack |-> <<[f EXCEPT !.pc = IF tm = 0 THEN "start" ELSE "finally",
                                            !.pending = sig]>> \o Tail(s),
                      out |-> NoOut, tm |-> IF tm = 0 THEN 1 ELSE tm]
                ELSE [stack |-> <<[f EXCEPT !.pc = "store", !.result = sig.v]>> \o Tail(s),
                      out |-> NoOut, tm |-> tm]
           [] f.op = "gar" ->
                IF sig.k = "exc"
                THEN Abort(f, Tail(s), sig, tm)
                ELSE Page([f EXCEPT !.bad = @ \cup ({fr.status} \ {200, 201, 202})],
                          sig.v, Tail(s), tm)

\* lines 132-149: the response with this status and payload arrives at the
\* make_request frame on top of s.
Classify(s, status, body) ==
    LET f == [Head(s) EXCEPT !.status = status, !.json = body]
        t == <<f>> \o Tail(s)
    IN  CASE status = 401 ->
               [stack |-> <<MrFrame("POST", TOKEN_URL), LoginFrame(access_token),
                            [f EXCEPT !.pc = "login"]>> \o Tail(s),
                out |-> NoOut, tm |-> 0]
          [] status = 429 -> Raise(t, Exc("Server42xRateLimitError", status, f.url), 0)
          [] status # 401 /\ status # 429 /\ status >= 500 ->
               Raise(t, Exc("Server5xxError", status, f.url), 0)
          [] OTHER ->
               IF ~StatusOk(status)
               THEN Raise(t, Exc("RuntimeError", status, f.url), 0)
               ELSE Resume(Tail(s), Ret(f.json), 0, f)

\* ------------------------------------------------------------------- state
LoginFrames(s) == Cardinality({i \in 1..Len(s) : s[i].op = "login"})

RECURSIVE SumLogins(_)
SumLogins(T) ==
    IF T = {} THEN 0
    ELSE LET t == CHOOSE x \in T : TRUE IN LoginFrames(stack[t]) + SumLogins(T \ {t})

\* Every login() in progress arms at most one timer when it ends, and every
\* armed timer starts one login().
Pending == armed + SumLogins(Threads)

Init ==
    /\ access_token = 0
    /\ login_timer = 0
    /\ started = {}
    /\ armed = 0
    /\ issued = 0
    /\ stack = [t \in Threads |-> <<>>]
    /\ out = [t \in Threads |-> NoOut]

Land(t, r) ==
    /\ stack' = [stack EXCEPT ![t] = r.stack]
    \* what a timer thread's login() returns or raises goes to nobody
    /\ out' = [out EXCEPT ![t] = IF t = Caller THEN r.out ELSE NoOut]

\* The Timer a thread is starting: the thread is inside Thread.start().
Starting(s) ==
    IF s # <<>> /\ Head(s).op = "login" /\ Head(s).pc = "spawn" THEN {Head(s).timer} ELSE {}

\* threading.Timer(...): a new object, one that nothing refers to.
NewTimer ==
    CHOOSE k \in Timers :
        /\ k # login_timer /\ \A t \in Threads : k \notin Starting(stack[t])
        /\ \A j \in 1..(k - 1) : j = login_timer \/ \E t \in Threads : j \in Starting(stack[t])

\* The started Timers among S that something refers to after the step.
Kept(S) ==
    {k \in S : k = login_timer' \/ \E t \in Threads : k \in Starting(stack'[t])}

Apply(t, r) ==
    /\ Land(t, r)
    /\ login_timer' = IF r.tm = 1 THEN NewTimer ELSE login_timer
    /\ started' = Kept(started)
    /\ UNCHANGED armed

\* The caller's startup login().
CallLogin ==
    /\ stack[Caller] = <<>>
    /\ Pending < MaxTimers
    /\ stack' = [stack EXCEPT ![Caller] = <<MrFrame("POST", TOKEN_URL), LoginFrame(access_token)>>]
    /\ out' = [out EXCEPT ![Caller] = NoOut]
    /\ UNCHANGED <<access_token, login_timer, started, armed, issued>>

\* The caller's get_all_resources(version, endpoint, ...) with arguments
\* taken from C, up to its first make_request.
GetAll(C) ==
    /\ stack[Caller] = <<>>
    /\ \E c \in C :
         stack' = [stack EXCEPT ![Caller] = Loop(GarFrame(c), <<>>, 0).stack]
    /\ out' = [out EXCEPT ![Caller] = NoOut]
    /\ UNCHANGED <<access_token, login_timer, started, armed, issued>>

\* get_all_resources(version, endpoint) without hints.
CallGetAll == GetAll({PlainCall})

\* get_all_resources(version, endpoint, top, orderby, filter_param)
CallGetAllHinted == GetAll(Calls)

\* The caller's make_request(method, url).
CallMakeRequest ==
    /\ stack[Caller] = <<>>
    /\ \E m \in Methods :
         stack' = [stack EXCEPT ![Caller] = <<MrFrame(m, FirstUrl)>>]
    /\ out' = [out EXCEPT ![Caller] = NoOut]
    /\ UNCHANGED <<access_token, login_timer, started, armed, issued>>

\* An armed timer fires: its thread calls login().  The timer threads are
\* alike; the one with the lowest number that is free is taken.
TimerFire ==
    /\ armed > 0
    /\ \E t \in Threads \ {Caller} :
         /\ stack[t] = <<>>
         /\ \A u \in Threads \ {Caller} : u < t => stack[u] # <<>>
         /\ stack' = [stack EXCEPT ![t] = <<MrFrame("POST", TOKEN_URL), LoginFrame(access_token)>>]
         /\ out' = [out EXCEPT ![t] = NoOut]
    /\ armed' = armed - 1
    /\ UNCHANGED <<access_token, login_timer, started, issued>>

\* lines 117-130: an attempt of make_request begins.
Send(t) ==
    /\ stack[t] # <<>>
    /\ LET f == Head(stack[t]) IN
       /\ f.op = "mr"
       /\ f.pc = "start"
       /\ IF Supported(f.method)
          THEN /\ stack' = [stack EXCEPT ![t] =
                              <<[f EXCEPT !.pc = "await",
                                          !.auth = SentAuth(f.method, access_token)]>>
                              \o Tail(stack[t])]
               /\ UNCHANGED <<out, armed, login_timer, started>>
          ELSE Apply(t, Raise(stack[t], Exc("Exception", 0, f.url), 0))
    /\ UNCHANGED <<access_token, issued>>

\* What the server may answer to the request of the frame on top of s: a
\* status, and with a status of success a payload (the payload of any other
\* response is not read).
Payloads(s) ==
    IF Head(s).url = TOKEN_URL
    THEN {TokenBody(0)} \cup (IF issued < MaxTokens THEN {TokenBody(issued + 1)} ELSE {})
    ELSE IF Len(s) > 1
         THEN {b \in PageBodies : Len(s[2].fetched) + 1 >= MaxPages => b.next = None}
         ELSE DirectBodies

\* lines 132-149: the response to the attempt arrives.
Respond(t) ==
    /\ stack[t] # <<>>
    /\ LET f == Head(stack[t]) IN
       /\ f.op = "mr"
       /\ f.pc = "await"
       /\ \E status \in (IF f.url = TOKEN_URL THEN TokenStatuses ELSE Statuses) :
            /\ status = 401 => Pending < MaxTimers
            /\ \E body \in (IF StatusOk(status) THEN Payloads(stack[t]) ELSE {f.json}) :
                 /\ issued' = IF body = TokenBody(issued + 1) THEN issued + 1 ELSE issued
                 /\ Apply(t, Classify(stack[t], status, body))
    /\ UNCHANGED access_token

\* lines 125 and 128: no response arrives.  session.get and session.post
\* raise requests.exceptions.ConnectionError, a subclass of
\* requests.exceptions.RequestException and not of the builtin
\* ConnectionError that line 112 names.
ConnectionFails(t) ==
    /\ stack[t] # <<>>
    /\ LET f == Head(stack[t]) IN
       /\ f.op = "mr"
       /\ f.pc = "await"
       /\ Apply(t, Raise(<<[f EXCEPT !.status = 0, !.json = EmptyBody]>> \o Tail(stack[t]),
                         Exc("requests.exceptions.ConnectionError", 0, f.url), 0))
    /\ UNCHANGED <<access_token, issued>>

\* line 72: login() stores the token; its finally block is next.
LoginStore(t) ==
    /\ stack[t] # <<>>
    /\ LET f == Head(stack[t]) IN
       /\ f.op = "login"
       /\ f.pc = "store"
       /\ access_token' = f.result.access_token
       /\ stack' = [stack EXCEPT ![t] =
                      <<[f EXCEPT !.pc = "finally", !.pending = Ret(None)]>> \o Tail(stack[t])]
    /\ UNCHANGED <<login_timer, started, armed, issued, out>>

\* lines 75-76 in a step of their own: self.login_timer = threading.Timer(..)
\* after line 72, or in a login() that an exception has reached in the step
\* that ran line 77 of a login() nested in it.
LoginFinally(t) ==
    /\ stack[t] # <<>>
    /\ LET f == Head(stack[t]) IN
       /\ f.op = "login"
       /\ f.pc = "finally"
       /\ stack' = [stack EXCEPT ![t] = <<[f EXCEPT !.pc = "start"]>> \o Tail(stack[t])]
    /\ login_timer' = NewTimer
    /\ started' = Kept(started)
    /\ UNCHANGED <<access_token, armed, issued, out>>

\* line 77, self.login_timer.start(), up to the test of Thread.start(): the
\* attribute is read again, so the Timer is the one assigned last, by
\* whichever thread.  On a Timer that is started the test raises
\* RuntimeError("threads can only be started once"), which takes the place
\* of what login() was ending with.
TimerStart(t) ==
    /\ stack[t] # <<>>
    /\ LET f == Head(stack[t]) IN
       /\ f.op = "login"
       /\ f.pc = "start"
       /\ IF login_timer \in started
          THEN /\ Land(t, Resume(Tail(stack[t]), Exc("RuntimeError", 0, None), 2, f))
          ELSE /\ stack' = [stack EXCEPT ![t] =
                              <<[f EXCEPT !.pc = "spawn", !.timer = login_timer]>>
                              \o Tail(stack[t])]
               /\ UNCHANGED out
    /\ UNCHANGED <<access_token, login_timer, started, armed, issued>>

\* Thread.start() past its test: it spawns the thread that runs the Timer and
\* returns when that thread has set the Timer started.  Nothing holds the
\* test and the spawn together: when another start() has spawned the same
\* Timer in between, both return, and the Timer's function runs once or
\* twice.
TimerSpawn(t) ==
    /\ UNCHANGED <<access_token, login_timer, issued>>
    /\ stack[t] # <<>>
    /\ LET f == Head(stack[t]) IN
       /\ f.op = "login"
       /\ f.pc = "spawn"
       /\ \E runs \in (IF f.timer \in started THEN {0, 1} ELSE {1}) : armed' = armed + runs
       /\ Land(t, Resume(Tail(stack[t]), f.pending, 2, [f EXCEPT !.timer = 0]))
       /\ started' = Kept(started \cup {f.timer})

Step ==
    \E t \in Threads :
        \/ Send(t) \/ Respond(t) \/ ConnectionFails(t)
        \/ LoginStore(t) \/ LoginFinally(t) \/ TimerStart(t) \/ TimerSpawn(t)

Next ==
    \/ CallLogin
    \/ CallGetAll
    \/ CallMakeRequest
    \/ TimerFire
    \/ Step

Spec == Init /\ [][Next]_vars

\* The caller's thread alone: a run shorter than TOKEN_EXPIRATION_PERIOD, in
\* which no timer fires.
NextSeq ==
    \/ CallLogin
    \/ CallGetAll
    \/ CallMakeRequest
    \/ Step

SeqSpec == Init /\ [][NextSeq]_vars

\* Pagination with query hints: the caller's get_all_resources calls only.
NextUrl ==
    \/ CallGetAllHinted
    \/ Step

UrlSpec == Init /\ [][NextUrl]_vars

\* Pagination to its end: the caller's get_all_resources calls, where every
\* request the caller makes gets its outcome (a response or a failure).
NextPages ==
    \/ CallGetAll
    \/ Step

PagesSpec ==
    /\ Init /\ [][NextPages]_vars
    /\ WF_vars(Send(Caller) \/ Respond(Caller) \/ ConnectionFails(Caller)
               \/ LoginStore(Caller) \/ LoginFinally(Caller)
               \/ TimerStart(Caller) \/ TimerSpawn(Caller))

\* The token's life: the caller's logins and requests with the timer threads.
NextToken ==
    \/ CallLogin
    \/ CallMakeRequest
    \/ TimerFire
    \/ Step

TokenSpec == Init /\ [][NextToken]_vars

\* The refresh chain: logins and timers.  A timer that is armed fires, and a
\* thread that can take a step takes it (every request is answered).
NextLive ==
    \/ CallLogin
    \/ TimerFire
    \/ Step

LiveSpec ==
    /\ Init /\ [][NextLive]_vars
    /\ WF_vars(TimerFire)
    /\ \A t \in Threads :
          WF_vars(Send(t) \/ Respond(t) \/ LoginStore(t) \/ LoginFinally(t)
                     \/ TimerStart(t) \/ TimerSpawn(t))

\* ------------------------------------------------------------------ claims
\* The make_request frames a thread has on its stack.
MrFrames(t) == {stack[t][i] : i \in {j \in 1..Len(stack[t]) : stack[t][j].op = "mr"}}

\* The records of a chain of pages, in page order.
RECURSIVE Flatten(_)
Flatten(pages) ==
    IF pages = <<>> THEN <<>> ELSE Head(pages).value \o Flatten(Tail(pages))

Front(q) == SubSeq(q, 1, Len(q) - 1)

Ended(t, op) == stack[t] = <<>> /\ out[t].op = op

\* A status make_request has no branch for: not 401, not 429, below 500 and
\* not a status of success.
Unlisted(status) ==
    /\ status > 0
    /\ status \notin {401, 429, 200, 201, 202}
    /\ status < 500

\* C1: a 401 answered to a request of get_all_resources is never what the
\* call ends with when the re-login succeeded: with a token stored, the
\* RuntimeError of a 401 response of the resource endpoint (raised only
\* after login() returned) never reaches the caller of get_all_resources.
C1_401NotSurfaced ==
    \A t \in Threads :
        (Ended(t, "gar") /\ out[t].sig.k = "exc" /\ access_token # 0)
            => ~(/\ out[t].sig.type = "RuntimeError"
                 /\ out[t].sig.status = 401
                 /\ out[t].sig.url # TOKEN_URL)

\* C2: no call of make_request makes a 6th attempt; a call whose last answer
\* is a 429 or a status >= 500 has made exactly 5 attempts and ends with the
\* error of that answer; a call whose last answer is 200/201/202 returns the
\* payload of that answer.
C2_FiveAttempts ==
    \A t \in Threads :
        /\ \A f \in MrFrames(t) : f.tries <= 5
        /\ Ended(t, "mr") =>
             LET f == out[t].fr
                 sig == out[t].sig
             IN  /\ f.tries <= 5
                 /\ (f.status = 429 \/ f.status >= 500) =>
                        /\ f.tries = 5
                        /\ sig.k = "exc"
                        /\ sig.status = f.status
                        /\ sig.type = IF f.status = 429 THEN "Server42xRateLimitError"
                                      ELSE "Server5xxError"
                 /\ f.status \in {200, 201, 202} =>
                        /\ sig.k = "ret"
                        /\ sig.v = f.json

C2_Witness ==
    /\ Ended(Caller, "mr")
    /\ out[Caller].fr.status = 500
    /\ out[Caller].fr.tries = 5
    /\ out[Caller].sig.k = "exc"

\* C3: a get_all_resources call that fetched the pages P1..Pn, all of them
\* non-empty, and returned, returns value(P1) ++ ... ++ value(Pn); every page
\* but the last carries a cursor and the last carries none.
C3_Concatenation ==
    \A t \in Threads :
        (/\ Ended(t, "gar")
         /\ out[t].sig.k = "ret"
         /\ \A i \in 1..Len(out[t].fr.fetched) : ~out[t].fr.fetched[i].empty)
            => LET P == out[t].fr.fetched
               IN  /\ out[t].sig.v = Flatten(P)
                   /\ Len(P) >= 1
                   /\ \A i \in 1..Len(P) : (P[i].next = None) <=> (i = Len(P))

C3_Witness ==
    /\ Ended(Caller, "gar")
    /\ out[Caller].sig.k = "ret"
    /\ Len(out[Caller].fr.fetched) = 2
    /\ out[Caller].fr.fetched[1].value = <<1, 2>>
    /\ out[Caller].fr.fetched[2].value = <<1>>
    /\ out[Caller].sig.v = <<1, 2, 1>>

\* C4: every login() that ends, by returning or by raising, has armed one
\* timer (each step that ends k logins arms k timers); and from any state
\* with a login() in progress or a timer armed, a timer thread enters
\* login() again, whatever the token endpoint answers.
TimerLoginEntered ==
    \E t \in Threads \ {Caller} :
        /\ Len(stack[t]) = 2
        /\ stack[t][1] = MrFrame("POST", TOKEN_URL)
        /\ stack[t][2].op = "login"

C4_ArmStep ==
    SumLogins(Threads)' < SumLogins(Threads)
        => armed' - armed = SumLogins(Threads) - SumLogins(Threads)'

C4_RefreshForever ==
    /\ [][C4_ArmStep]_vars
    /\ [](Pending > 0 => <>TimerLoginEntered)

\* C5: at most one timer is armed and has not fired.
C5_OneTimer == armed <= 1

\* C6: a step that ends a get_all_resources call without a page having
\* arrived in it (a request of the call has failed for good) ends it with
\* that request's exception, and no records are returned; a call that
\* returns records has fetched a last page that is empty or has no cursor.
C6_Step(t) ==
    (/\ Len(stack[t]) >= 2
     /\ stack[t][Len(stack[t])].op = "gar"
     /\ stack'[t] = <<>>)
        => LET g == stack[t][Len(stack[t])]
               o == out'[t]
           IN  /\ o.op = "gar"
               /\ Len(o.fr.fetched) = Len(g.fetched) =>
                     /\ o.sig.k = "exc"
                     /\ o.sig.type \in {"RuntimeError", "Server5xxError",
                                        "Server42xRateLimitError",
                                        "requests.exceptions.ConnectionError"}
                     /\ o.sig.url \in {g.next_url, TOKEN_URL}
                     /\ o.fr.response = g.response
               /\ o.sig.k = "ret" =>
                     /\ Len(o.fr.fetched) = Len(g.fetched) + 1
                     /\ LET p == o.fr.fetched[Len(o.fr.fetched)]
                        IN  p.empty \/ p.next = None

C6_FatalDiscards == [][\A t \in Threads : C6_Step(t)]_vars

C6_Witness ==
    /\ Ended(Caller, "gar")
    /\ out[Caller].sig.k = "exc"
    /\ out[Caller].sig.type = "Server5xxError"
    /\ Len(out[Caller].fr.fetched) = 1
    /\ out[Caller].fr.response = <<1, 2>>

\* C7: an empty page is the last page of its call: no request follows it,
\* and the call returns the records of the pages before it.
C7_EmptyPageStops ==
    \A t \in Threads :
        /\ \A i \in 1..Len(stack[t]) :
              stack[t][i].op = "gar" =>
                 \A j \in 1..Len(stack[t][i].fetched) : ~stack[t][i].fetched[j].empty
        /\ Ended(t, "gar") =>
              LET P == out[t].fr.fetched
              IN  /\ \A j \in 1..(Len(P) - 1) : ~P[j].empty
                  /\ (Len(P) >= 1 /\ P[Len(P)].empty) =>
                        /\ out[t].sig.k = "ret"
                        /\ out[t].sig.v = Flatten(Front(P))

C7_Witness ==
    /\ Ended(Caller, "gar")
    /\ out[Caller].sig.k = "ret"
    /\ Len(out[Caller].fr.fetched) = 2
    /\ out[Caller].fr.fetched[1].next # None
    /\ out[Caller].fr.fetched[2].empty
    /\ out[Caller].sig.v = <<1, 2>>

\* C8: a response with an unlisted status ends the call of make_request at
\* that attempt: no frame that got one is left to retry or to wait for a
\* login, and the call ends with a RuntimeError carrying that response.
C8_UnlistedIsFatal ==
    \A t \in Threads :
        /\ \A f \in MrFrames(t) : ~Unlisted(f.status)
        /\ (Ended(t, "mr") /\ Unlisted(out[t].fr.status)) =>
              /\ out[t].sig.k = "exc"
              /\ out[t].sig.type = "RuntimeError"
              /\ out[t].sig.status = out[t].fr.status
              /\ out[t].sig.url = out[t].fr.url

C8_Witness ==
    /\ Ended(Caller, "mr")
    /\ out[Caller].fr.status = 418
    /\ out[Caller].fr.tries = 1
    /\ out[Caller].sig.type = "RuntimeError"

\* C9: a request attempt that starts while a token T is stored (the token of
\* the last login() that returned) carries T in its Authorization header.
C9_Step(t) ==
    (/\ stack[t] # <<>>
     /\ Head(stack[t]).op = "mr"
     /\ Head(stack[t]).pc = "start"
     /\ stack'[t] # <<>>
     /\ Head(stack'[t]).op = "mr"
     /\ Head(stack'[t]).pc = "await"
     /\ access_token # 0)
        => Head(stack'[t]).auth = access_token

C9_NextRequestCarriesToken == [][\A t \in Threads : C9_Step(t)]_vars

\* C10: make_request with a method other than GET and POST ends in its first
\* step with the unsupported-method error: nothing was sent, no attempt
\* follows, no login starts, and token and timers are as they were.
C10_Step(t) ==
    (/\ stack[t] # <<>>
     /\ Head(stack[t]).op = "mr"
     /\ Head(stack[t]).method \notin {"GET", "POST"}
     /\ stack'[t] # stack[t])
        => /\ stack'[t] = Tail(stack[t])
           /\ out'[t].op = "mr"
           /\ out'[t].sig = Exc("Exception", 0, Head(stack[t]).url)
           /\ out'[t].fr = Head(stack[t])
           /\ out'[t].fr.pc = "start"
           /\ out'[t].fr.tries = 1
           /\ out'[t].fr.status = 0
           /\ UNCHANGED <<access_token, login_timer, armed, issued>>

C10_UnsupportedMethod == [][\A t \in Threads : C10_Step(t)]_vars

C10_Witness ==
    /\ Ended(Caller, "mr")
    /\ out[Caller].fr.method = "DELETE"
    /\ out[Caller].sig.k = "exc"
    /\ out[Caller].sig.type = "Exception"

\* The tokens that have been stored as the current token so far: a token the
\* token endpoint has issued is on its way to a login() (a login frame holds
\* it and has not stored it yet) or has been stored.
StoredTokens ==
    {k \in 1..issued :
        \A t \in Threads : \A i \in 1..Len(stack[t]) :
            ~(/\ stack[t][i].op = "login"
              /\ stack[t][i].pc = "store"
              /\ stack[t][i].result.access_token = k)}

\* The step of thread t is the start of a request attempt.
AttemptStarts(t) ==
    /\ stack[t] # <<>>
    /\ Head(stack[t]).op = "mr"
    /\ Head(stack[t]).pc = "start"
    /\ stack'[t] # <<>>
    /\ Head(stack'[t]).op = "mr"
    /\ Head(stack'[t]).pc = "await"

\* C11: once a login() has stored a token T, no request attempt that starts
\* later carries a token that the token endpoint issued before T (tokens are
\* numbered in the order of issue), whatever the interleaving of the logins
\* of the timer threads, the logins after a 401 and the requests.
C11_Step(t) ==
    AttemptStarts(t) =>
        \A T \in StoredTokens :
            ~(Head(stack'[t]).auth >= 1 /\ Head(stack'[t]).auth < T)

C11_NoOlderToken == [][\A t \in Threads : C11_Step(t)]_vars

\* C12: a login() that completes normally has stored a usable token: when the
\* token endpoint cannot be reached, or answers 2xx without an access_token
\* field, login() ends by raising, and it never returns having set the
\* current token to None.
C12_LoginFailureSignalled ==
    \A t \in Threads :
        (Ended(t, "login") /\ out[t].sig.k = "ret")
            => out[t].fr.result.access_token # 0

\* C13: a non-empty page without the field 'value' does not make
\* get_all_resources fail: no call ends with an exception raised by the
\* handling of a page.
C13_MissingValueTolerated ==
    \A t \in Threads :
        Ended(t, "gar") =>
            LET P == out[t].fr.fetched
            IN  (/\ Len(P) >= 1
                 /\ ~P[Len(P)].empty
                 /\ ~P[Len(P)].hasValue)
                    => /\ out[t].sig.k = "ret"
                       /\ out[t].sig.v = Flatten(P)

\* C14: a connection failure of the HTTP call is retried like a 429 or a 5xx:
\* a make_request call that ends with the connection error has made 5
\* attempts.
C14_ConnectionRetried ==
    \A t \in Threads :
        (/\ Ended(t, "mr")
         /\ out[t].sig.k = "exc"
         /\ out[t].sig.type = "requests.exceptions.ConnectionError")
            => out[t].fr.tries = max_tries

\* C15: every attempt of make_request, GET or POST, the token POST of login()
\* included, carries in its Authorization header the token that is current
\* when the attempt starts (retries read it again).
C15_Step(t) ==
    AttemptStarts(t) => Head(stack'[t]).auth = access_token

C15_EveryRequestAuthorized == [][\A t \in Threads : C15_Step(t)]_vars

\* The url of the first request of a call, written out for the calls of the
\* model: base, version and endpoint, then the hints that are given and not
\* empty, url-encoded.
C16_FirstUrl(c) ==
    CASE c = PlainCall ->
           "https://graph.microsoft.com/v1.0/users"
      [] c = Call("500", None, "") ->
           "https://graph.microsoft.com/v1.0/users?%24top=500"
      [] c = Call(None, "displayName", "id eq 1") ->
           "https://graph.microsoft.com/v1.0/users?%24orderby=displayName&%24filter=id+eq+1"
      [] c = Call("500", "displayName", "id eq 1") ->
           "https://graph.microsoft.com/v1.0/users?%24top=500&%24orderby=displayName&%24filter=id+eq+1"

\* C16: in a get_all_resources call, the url to request is the url built from
\* the call's arguments as long as no page has arrived, and afterwards the
\* cursor of the page that arrived last, unchanged; every request the call
\* has in progress is a GET of exactly that url.
C16_CursorVerbatim ==
    \A t \in Threads : \A i \in 1..Len(stack[t]) :
        stack[t][i].op = "gar" =>
            LET g == stack[t][i]
                expected == IF g.fetched = <<>> THEN C16_FirstUrl(g.call)
                            ELSE g.fetched[Len(g.fetched)].next
            IN  /\ g.next_url = expected
                /\ i > 1
                /\ stack[t][i - 1].op = "mr"
                /\ stack[t][i - 1].method = "GET"
                /\ stack[t][i - 1].url = expected

\* The second request of a call that was given a page-size hint and an empty
\* filter is in flight: it goes to the cursor of the first page.
C16_Witness ==
    /\ Len(stack[Caller]) = 2
    /\ stack[Caller][2].op = "gar"
    /\ stack[Caller][2].call = Call("500", None, "")
    /\ Len(stack[Caller][2].fetched) = 1
    /\ stack[Caller][1].pc = "await"
    /\ stack[Caller][1].url = "U1"

\* A page after which the loop requests no other: empty, or without cursor.
LastPage(p) == p.empty \/ p.next = None

InGetAll == stack[Caller] # <<>> /\ stack[Caller][Len(stack[Caller])].op = "gar"

\* C17: a get_all_resources call ends.  While it runs, no page it has
\* received is a last page; when it returns, the pages it has received (one
\* per successful GET) are the chain up to and including the first last page;
\* it ends only by returning after a last page or by an error.
C17_Pages ==
    /\ \A i \in 1..Len(stack[Caller]) :
          stack[Caller][i].op = "gar" =>
              \A j \in 1..Len(stack[Caller][i].fetched) :
                  ~LastPage(stack[Caller][i].fetched[j])
    /\ Ended(Caller, "gar") =>
          LET P == out[Caller].fr.fetched
          IN  /\ Len(P) <= MaxPages
              /\ \A j \in 1..(Len(P) - 1) : ~LastPage(P[j])
              /\ out[Caller].sig.k = "ret" => (Len(P) >= 1 /\ LastPage(P[Len(P)]))
              /\ out[Caller].sig.k = "exc" \/ out[Caller].fr.next_url = None

C17_Terminates ==
    /\ []C17_Pages
    /\ InGetAll ~> Ended(Caller, "gar")

\* A call has returned after two successful GETs: the first page had a
\* cursor, the second is not empty and has none.
C17_Witness ==
    /\ Ended(Caller, "gar")
    /\ out[Caller].sig.k = "ret"
    /\ Len(out[Caller].fr.fetched) = 2
    /\ out[Caller].fr.fetched[1].next = "U1"
    /\ ~out[Caller].fr.fetched[2].empty
    /\ out[Caller].fr.fetched[2].next = None

\* C18: login() comes to its end by its own bounds: the calls of login()
\* nested in one another on a thread stay fewer than the 401 answers the
\* token endpoint may give in a row (MaxTimers).
C18_LoginBounded ==
    \A t \in Threads : LoginFrames(stack[t]) < MaxTimers

\* C19: a call of login() that ends by raising leaves access_token as it was
\* when the call began: in every login() that an exception has ended and
\* that has only its finally block left, access_token is the token of the
\* call's beginning.
C19_RaisingLoginKeepsToken ==
    \A t \in Threads : \A i \in 1..Len(stack[t]) :
        (/\ stack[t][i].op = "login"
         /\ stack[t][i].pc \in {"finally", "start"}
         /\ stack[t][i].pending.k = "exc")
            => access_token = stack[t][i].entry

\* C20: a make_request call that returns a payload got it with status 200,
\* 201 or 202, and returns that payload; no payload that get_all_resources
\* has accumulated came with another status.
C20_PayloadOnlyOnSuccess ==
    \A t \in Threads :
        /\ (Ended(t, "mr") /\ out[t].sig.k = "ret") =>
              /\ out[t].fr.status \in {200, 201, 202}
              /\ out[t].sig.v = out[t].fr.json
        /\ \A i \in 1..Len(stack[t]) : stack[t][i].op = "gar" => stack[t][i].bad = {}
        /\ Ended(t, "gar") => out[t].fr.bad = {}

\* A get_all_resources call has returned the two records of its only page.
C20_Witness ==
    /\ Ended(Caller, "gar")
    /\ out[Caller].sig.k = "ret"
    /\ out[Caller].sig.v = <<1, 2>>
    /\ Len(out[Caller].fr.fetched) = 1

====
